---------------------------- MODULE Spec2Model ----------------------------
(***************************************************************************)
(* EVisionary (src/app.py): the streaming query engine behind /api/table   *)
(* and /api/export.  A request handler walks the parquet file one row      *)
(* group at a time, filters each row with row_matches and either collects  *)
(* a page of rows (api_table) or writes CSV rows up to a hard cap          *)
(* (export_csv).                                                            *)
(*                                                                         *)
(* Python values are modelled as follows.  A str is a sequence of          *)
(* one-character strings (Chars gives the characters of each literal the   *)
(* model uses), so lower(), "in", == and isdigit() are computed character  *)
(* by character.  An optional value (x or None) is a sequence of length    *)
(* at most one: None is << >> and a value x is << x >>.  Row groups are    *)
(* numbered from 1 here and from 0 in the source.                          *)
(***************************************************************************)
EXTENDS Integers, Sequences, FiniteSets, TLC

VARIABLES parquet,   \* the row groups of the data file, each a sequence of rows
          inbox,     \* the HTTP request each handler slot is about to serve
          req        \* per slot: the handler's local variables and its response

vars == <<parquet, inbox, req>>

---------------------------------------------------------------------------
(* Python str                                                              *)

\* The character U+00B2 (superscript two), for which str.isdigit() is true
\* and int() raises ValueError.
SuperscriptTwo == "SUPERSCRIPT TWO"

Chars(s) ==
  CASE s = "" -> <<>>
    [] s = "sEV (exosome-like)" -> <<"s", "E", "V", " ", "(", "e", "x", "o", "s", "o", "m", "e", "-", "l", "i", "k", "e", ")">>
    [] s = "microvesicle" -> <<"m", "i", "c", "r", "o", "v", "e", "s", "i", "c", "l", "e">>
    [] s = "extracellular vesicle (generic)" -> <<"e", "x", "t", "r", "a", "c", "e", "l", "l", "u", "l", "a", "r", " ", "v", "e", "s", "i", "c", "l", "e", " ", "(", "g", "e", "n", "e", "r", "i", "c", ")">>
    [] s = "apoptotic body" -> <<"a", "p", "o", "p", "t", "o", "t", "i", "c", " ", "b", "o", "d", "y">>
    [] s = "exosome" -> <<"e", "x", "o", "s", "o", "m", "e">>
    [] s = "small extracellular vesicle" -> <<"s", "m", "a", "l", "l", " ", "e", "x", "t", "r", "a", "c", "e", "l", "l", "u", "l", "a", "r", " ", "v", "e", "s", "i", "c", "l", "e">>
    [] s = "sev" -> <<"s", "e", "v">>
    [] s = "ectosome" -> <<"e", "c", "t", "o", "s", "o", "m", "e">>
    [] s = "extracellular vesicle" -> <<"e", "x", "t", "r", "a", "c", "e", "l", "l", "u", "l", "a", "r", " ", "v", "e", "s", "i", "c", "l", "e">>
    [] s = "ev" -> <<"e", "v">>
    [] s = "Exosome" -> <<"E", "x", "o", "s", "o", "m", "e">>
    [] s = "Homo sapiens" -> <<"H", "o", "m", "o", " ", "s", "a", "p", "i", "e", "n", "s">>
    [] s = "Mus musculus" -> <<"M", "u", "s", " ", "m", "u", "s", "c", "u", "l", "u", "s">>
    [] s = "homo" -> <<"h", "o", "m", "o">>
    [] s = "ultracentrifugation" -> <<"u", "l", "t", "r", "a", "c", "e", "n", "t", "r", "i", "f", "u", "g", "a", "t", "i", "o", "n">>
    [] s = "Precipitation" -> <<"P", "r", "e", "c", "i", "p", "i", "t", "a", "t", "i", "o", "n">>
    [] s = "Ultra" -> <<"U", "l", "t", "r", "a">>
    [] s = "precip" -> <<"p", "r", "e", "c", "i", "p">>
    [] s = "2015" -> <<"2", "0", "1", "5">>
    [] s = "2016" -> <<"2", "0", "1", "6">>
    [] s = "abc" -> <<"a", "b", "c">>
    [] s = "20x5" -> <<"2", "0", "x", "5">>
    [] s = "0" -> <<"0">>
    [] s = "^2" -> <<SuperscriptTwo>>
    [] s = "Exo" -> <<"E", "x", "o">>
    [] s = "sapiens" -> <<"s", "a", "p", "i", "e", "n", "s">>
    [] s = "vesicle" -> <<"v", "e", "s", "i", "c", "l", "e">>
    [] s = "MICROVESICLE" -> <<"M", "I", "C", "R", "O", "V", "E", "S", "I", "C", "L", "E">>

LowerChar(c) ==
  CASE c = "A" -> "a" [] c = "B" -> "b" [] c = "C" -> "c" [] c = "D" -> "d"
    [] c = "E" -> "e" [] c = "F" -> "f" [] c = "G" -> "g" [] c = "H" -> "h"
    [] c = "I" -> "i" [] c = "J" -> "j" [] c = "K" -> "k" [] c = "L" -> "l"
    [] c = "M" -> "m" [] c = "N" -> "n" [] c = "O" -> "o" [] c = "P" -> "p"
    [] c = "Q" -> "q" [] c = "R" -> "r" [] c = "S" -> "s" [] c = "T" -> "t"
    [] c = "U" -> "u" [] c = "V" -> "v" [] c = "W" -> "w" [] c = "X" -> "x"
    [] c = "Y" -> "y" [] c = "Z" -> "z" [] OTHER -> c

\* str.lower()
Lower(cs) == [i \in 1..Len(cs) |-> LowerChar(cs[i])]

\* sub in cs
Contains(cs, sub) ==
  \E i \in 0..(Len(cs) - Len(sub)) : SubSeq(cs, i + 1, i + Len(sub)) = sub

DecimalDigits == {"0", "1", "2", "3", "4", "5", "6", "7", "8", "9"}

\* str.isdigit(): non-empty and every character is a digit; the Unicode
\* superscript digits count as digits.
IsDigit(cs) ==
  /\ Len(cs) > 0
  /\ \A i \in 1..Len(cs) : cs[i] \in DecimalDigits \cup {SuperscriptTwo}

DigitValue(c) ==
  CASE c = "0" -> 0 [] c = "1" -> 1 [] c = "2" -> 2 [] c = "3" -> 3
    [] c = "4" -> 4 [] c = "5" -> 5 [] c = "6" -> 6 [] c = "7" -> 7
    [] c = "8" -> 8 [] c = "9" -> 9

\* int(s) raises ValueError on a character that is not a decimal digit.
IntRaises(cs) == \E i \in 1..Len(cs) : cs[i] \notin DecimalDigits

RECURSIVE int(_)
int(cs) ==
  IF Len(cs) = 0 THEN 0
  ELSE 10 * int(SubSeq(cs, 1, Len(cs) - 1)) + DigitValue(cs[Len(cs)])

---------------------------------------------------------------------------
(* Optional values: x or None                                              *)

None == <<>>
Some(x) == <<x>>

\* s or None, for a str s
StrOrNone(cs) == IF cs = <<>> THEN None ELSE Some(cs)

\* The truth value of an optional str and of an optional int: None, "" and 0
\* are false.
TruthyStr(o) == o # None /\ o[1] # <<>>
TruthyInt(o) == o # None /\ o[1] # 0

---------------------------------------------------------------------------
(* Configuration                                                           *)

EV_ONTOLOGY ==
  [k \in {"sEV (exosome-like)", "microvesicle",
          "extracellular vesicle (generic)", "apoptotic body"} |->
     CASE k = "sEV (exosome-like)" ->
            [synonyms |-> <<"exosome", "small extracellular vesicle", "sev">>,
             go |-> "GO:0070062"]
       [] k = "microvesicle" ->
            [synonyms |-> <<"microvesicle", "ectosome">>, go |-> "GO:1903561"]
       [] k = "extracellular vesicle (generic)" ->
            [synonyms |-> <<"extracellular vesicle", "ev">>, go |-> "GO:1903561"]
       [] k = "apoptotic body" ->
            [synonyms |-> <<"apoptotic body">>, go |-> "GO:0097209"]]

SAFE_COLUMNS == <<"VESICLE_TYPE", "species", "isolation_method", "YEAR">>

\* request.args.get("start", 0) and request.args.get("length", 25)
DefaultStart == 0
DefaultLength == 25

DefaultDraw == 1

---------------------------------------------------------------------------
(* row_matches                                                             *)

row_matches(r, filters, search) ==
  LET vt == Lower(Chars(r.VESICLE_TYPE)) IN
  IF /\ filters.ev_syns # <<>>
     /\ ~ \E i \in DOMAIN filters.ev_syns : Contains(vt, filters.ev_syns[i])
  THEN FALSE
  ELSE IF TruthyStr(filters.species) /\ Chars(r.species) # filters.species[1]
  THEN FALSE
  ELSE IF /\ TruthyStr(filters.isolation)
          /\ ~ Contains(Lower(Chars(r.isolation_method)), filters.isolation[1])
  THEN FALSE
  ELSE IF TruthyInt(filters.year) /\ r.YEAR # filters.year[1]
  THEN FALSE
  ELSE IF TruthyStr(search) /\ ~ Contains(vt, search[1])
  THEN FALSE
  ELSE TRUE

\* r[c] raises KeyError: the row has no column c.
KeyError(r, c) == c \notin DOMAIN r

\* row_matches(r, filters, search) raises KeyError: it reaches the subscript
\* of a column that r does not have before it returns.
row_matches_raises(r, filters, search) ==
  IF KeyError(r, "VESICLE_TYPE") THEN TRUE
  ELSE
  LET vt == Lower(Chars(r.VESICLE_TYPE)) IN
  IF /\ filters.ev_syns # <<>>
     /\ ~ \E i \in DOMAIN filters.ev_syns : Contains(vt, filters.ev_syns[i])
  THEN FALSE
  ELSE IF TruthyStr(filters.species) /\ KeyError(r, "species")
  THEN TRUE
  ELSE IF TruthyStr(filters.species) /\ Chars(r.species) # filters.species[1]
  THEN FALSE
  ELSE IF TruthyStr(filters.isolation) /\ KeyError(r, "isolation_method")
  THEN TRUE
  ELSE IF /\ TruthyStr(filters.isolation)
          /\ ~ Contains(Lower(Chars(r.isolation_method)), filters.isolation[1])
  THEN FALSE
  ELSE TruthyInt(filters.year) /\ KeyError(r, "YEAR")

---------------------------------------------------------------------------
(* Request parsing, shared by api_table and export_csv                     *)

\* [s.lower() for s in EV_ONTOLOGY.get(ev, {}).get("synonyms", [])]
EvSyns(ev) ==
  IF ev \in DOMAIN EV_ONTOLOGY
  THEN [i \in DOMAIN EV_ONTOLOGY[ev].synonyms |->
          Lower(Chars(EV_ONTOLOGY[ev].synonyms[i]))]
  ELSE <<>>

\* int(year) if year.isdigit() else None
YearFilter(year) ==
  IF IsDigit(Chars(year)) THEN Some(int(Chars(year))) ELSE None

\* the int() of the year filter raises ValueError
YearRaises(year) == IsDigit(Chars(year)) /\ IntRaises(Chars(year))

ParseFilters(a) ==
  [ev_syns   |-> EvSyns(a.ev),
   species   |-> StrOrNone(Chars(a.species)),
   isolation |-> StrOrNone(Lower(Chars(a.isolation))),
   year      |-> YearFilter(a.year)]

NoFilters == [ev_syns |-> <<>>, species |-> None, isolation |-> None, year |-> None]

---------------------------------------------------------------------------
(* Handler state                                                           *)

Slots == DOMAIN inbox

num_row_groups == Len(parquet)

NoResponse == [status |-> 0]

\* An unhandled exception: Flask answers 500 Internal Server Error.
ServerError(exc) == [status |-> 500, exception |-> exc]

IdleHandler ==
  [pc |-> "idle", start |-> 0, length |-> 0, search |-> None,
   filters |-> NoFilters, rows |-> <<>>, matched |-> 0,
   output |-> <<>>, count |-> 0, rg |-> 1, response |-> NoResponse]

\* _parquet.read_row_group(rg, columns=SAFE_COLUMNS).to_pylist(): the rows of
\* row group rg, each with the columns asked for that the file has (a name
\* the file does not have selects no column).
read_row_group(rg) ==
  [k \in 1..Len(parquet[rg]) |->
     [c \in {SAFE_COLUMNS[j] : j \in DOMAIN SAFE_COLUMNS}
               \cap DOMAIN parquet[rg][k] |-> parquet[rg][k][c]]]

\* [r["VESICLE_TYPE"], r["species"], r["isolation_method"], r["YEAR"]]
Cells(r) == <<r.VESICLE_TYPE, r.species, r.isolation_method, r.YEAR>>

\* Building that list raises KeyError.
CellsRaise(r) == \E j \in DOMAIN SAFE_COLUMNS : KeyError(r, SAFE_COLUMNS[j])

---------------------------------------------------------------------------
(* /api/table                                                              *)

\* TableRow with the offset test off by one (matched < start).
TableRowSkipsOneLess(acc, r, q) ==
  IF acc.broke THEN acc
  ELSE IF row_matches_raises(r, q.filters, q.search)
  THEN [acc EXCEPT !.broke = TRUE, !.raised = TRUE]
  ELSE IF ~ row_matches(r, q.filters, q.search) THEN acc
  ELSE LET matched == acc.matched + 1 IN
       IF matched < q.start THEN [acc EXCEPT !.matched = matched]
       ELSE IF Len(acc.rows) >= q.length
            THEN [acc EXCEPT !.matched = matched, !.broke = TRUE]
       ELSE IF CellsRaise(r)
            THEN [acc EXCEPT !.matched = matched, !.broke = TRUE,
                             !.raised = TRUE]
            ELSE [acc EXCEPT !.matched = matched,
                             !.rows = Append(@, Cells(r))]

\* One iteration of "for r in table"; acc.broke records that the loop was
\* left, by the break or (acc.raised) by a KeyError.
TableRow(acc, r, q) ==
  IF acc.broke THEN acc
  ELSE IF row_matches_raises(r, q.filters, q.search)
  THEN [acc EXCEPT !.broke = TRUE, !.raised = TRUE]
  ELSE IF ~ row_matches(r, q.filters, q.search) THEN acc
  ELSE LET matched == acc.matched + 1 IN
       IF matched <= q.start THEN [acc EXCEPT !.matched = matched]
       ELSE IF Len(acc.rows) >= q.length
            THEN [acc EXCEPT !.matched = matched, !.broke = TRUE]
       ELSE IF CellsRaise(r)
            THEN [acc EXCEPT !.matched = matched, !.broke = TRUE,
                             !.raised = TRUE]
            ELSE [acc EXCEPT !.matched = matched,
                             !.rows = Append(@, Cells(r))]

\* "for r in table" over table[lo..hi], in order.
RECURSIVE TableRows(_, _, _, _, _)
TableRows(table, lo, hi, acc, q) ==
  IF lo > hi THEN acc
  ELSE IF lo = hi THEN TableRow(acc, table[lo], q)
  ELSE LET mid  == (lo + hi) \div 2
           left == TableRows(table, lo, mid, acc, q)
       IN  IF left.broke THEN left ELSE TableRows(table, mid + 1, hi, left, q)

\* TableRowGroup with the match counter restarted in every row group.
TableRowGroupRestartsCount(q, table) ==
  LET acc == TableRows(table, 1, Len(table),
                       [rows |-> q.rows, matched |-> 0, broke |-> FALSE,
                        raised |-> FALSE], q)
  IN  IF acc.raised
      THEN [q EXCEPT !.pc = "failed", !.response = ServerError("KeyError")]
      ELSE [q EXCEPT !.rows = acc.rows,
                     !.matched = acc.matched,
                     !.rg = q.rg + 1,
                     !.pc = IF Len(acc.rows) >= q.length THEN "respond"
                                                         ELSE "scan"]

\* The body of "for rg in range(num_row_groups)" for one row group.
TableRowGroup(q, table) ==
  LET acc == TableRows(table, 1, Len(table),
                       [rows |-> q.rows, matched |-> q.matched, broke |-> FALSE,
                        raised |-> FALSE], q)
  IN  IF acc.raised
      THEN [q EXCEPT !.pc = "failed", !.response = ServerError("KeyError")]
      ELSE [q EXCEPT !.rows = acc.rows,
                     !.matched = acc.matched,
                     !.rg = q.rg + 1,
                     !.pc = IF Len(acc.rows) >= q.length THEN "respond"
                                                         ELSE "scan"]

\* The handler's variables when the scan starts, for the request a.
TableLocals(a) ==
  [IdleHandler EXCEPT !.pc = "scan",
                      !.start = a.start,
                      !.length = a.length,
                      !.search = Some(Lower(Chars(a.search))),
                      !.filters = ParseFilters(a),
                      !.rows = <<>>,
                      !.matched = 0,
                      !.rg = 1]

api_table_parse(i) ==
  /\ req[i].pc = "idle"
  /\ inbox[i].route = "/api/table"
  /\ \/ /\ YearRaises(inbox[i].year)
        /\ req' = [req EXCEPT ![i].pc = "failed",
                              ![i].response = ServerError("ValueError")]
     \/ /\ ~ YearRaises(inbox[i].year)
        /\ req' = [req EXCEPT ![i] = TableLocals(inbox[i])]
  /\ UNCHANGED <<parquet, inbox>>

\* api_table_read_row_group with matched kept in one module-level counter
\* that every request being served reads and writes.
api_table_read_row_group_SharedCounter(i) ==
  /\ req[i].pc = "scan"
  /\ inbox[i].route = "/api/table"
  /\ req[i].rg <= num_row_groups
  /\ \/ LET q == TableRowGroup(req[i], read_row_group(req[i].rg)) IN
        req' = [j \in Slots |->
                  IF j = i THEN q ELSE [req[j] EXCEPT !.matched = q.matched]]
     \/ req' = [req EXCEPT ![i].pc = "failed",
                           ![i].response = ServerError("ArrowError")]
  /\ UNCHANGED <<parquet, inbox>>

api_table_read_row_group(i) ==
  /\ req[i].pc = "scan"
  /\ inbox[i].route = "/api/table"
  /\ req[i].rg <= num_row_groups
  /\ \/ req' = [req EXCEPT ![i] = TableRowGroup(req[i], read_row_group(req[i].rg))]
     \/ \* read_row_group raises: nothing catches it
        req' = [req EXCEPT ![i].pc = "failed",
                           ![i].response = ServerError("ArrowError")]
  /\ UNCHANGED <<parquet, inbox>>

api_table_respond(i) ==
  /\ inbox[i].route = "/api/table"
  /\ \/ req[i].pc = "respond"
     \/ req[i].pc = "scan" /\ req[i].rg > num_row_groups
  /\ req' = [req EXCEPT ![i].pc = "done",
                        ![i].response = [status          |-> 200,
                                         draw            |-> DefaultDraw,
                                         recordsTotal    |-> req[i].matched,
                                         recordsFiltered |-> req[i].matched,
                                         data            |-> req[i].rows]]
  /\ UNCHANGED <<parquet, inbox>>

---------------------------------------------------------------------------
(* /api/export                                                             *)

\* if count >= 1000:  # hard safety cap
ExportCap == 1000

CsvHeader == <<"Vesicle type", "Species", "Isolation", "Year">>

\* ExportRow with the cap test off by one (count > 1000).
ExportRowCapsOneLate(acc, r, q) ==
  IF acc.broke THEN acc
  ELSE IF row_matches_raises(r, q.filters, None)
  THEN [acc EXCEPT !.broke = TRUE, !.raised = TRUE]
  ELSE IF ~ row_matches(r, q.filters, None) THEN acc
  ELSE IF CellsRaise(r)
  THEN [acc EXCEPT !.broke = TRUE, !.raised = TRUE]
  ELSE LET count == acc.count + 1 IN
       [acc EXCEPT !.output = Append(@, Cells(r)),
                   !.count = count,
                   !.broke = (count > ExportCap)]

\* One iteration of "for r in table"; acc.broke records that the loop was
\* left, by the break or (acc.raised) by a KeyError.
ExportRow(acc, r, q) ==
  IF acc.broke THEN acc
  ELSE IF row_matches_raises(r, q.filters, None)
  THEN [acc EXCEPT !.broke = TRUE, !.raised = TRUE]
  ELSE IF ~ row_matches(r, q.filters, None) THEN acc
  ELSE IF CellsRaise(r)
  THEN [acc EXCEPT !.broke = TRUE, !.raised = TRUE]
  ELSE LET count == acc.count + 1 IN
       [acc EXCEPT !.output = Append(@, Cells(r)),
                   !.count = count,
                   !.broke = (count >= ExportCap)]

\* "for r in table" over table[lo..hi], in order.
RECURSIVE ExportRows(_, _, _, _, _)
ExportRows(table, lo, hi, acc, q) ==
  IF lo > hi THEN acc
  ELSE IF lo = hi THEN ExportRow(acc, table[lo], q)
  ELSE LET mid  == (lo + hi) \div 2
           left == ExportRows(table, lo, mid, acc, q)
       IN  IF left.broke THEN left ELSE ExportRows(table, mid + 1, hi, left, q)

\* The body of "for rg in range(num_row_groups)" for one row group.
ExportRowGroup(q, table) ==
  LET acc == ExportRows(table, 1, Len(table),
                        [output |-> q.output, count |-> q.count, broke |-> FALSE,
                         raised |-> FALSE], q)
  IN  IF acc.raised
      THEN [q EXCEPT !.pc = "failed", !.response = ServerError("KeyError")]
      ELSE [q EXCEPT !.output = acc.output,
                     !.count = acc.count,
                     !.rg = q.rg + 1,
                     !.pc = IF acc.count >= ExportCap THEN "respond" ELSE "scan"]

\* ExportLocals with the isolation filter left in the case it was sent in.
ExportLocalsKeepsCase(a) ==
  [IdleHandler EXCEPT !.pc = "scan",
                      !.filters = [ParseFilters(a) EXCEPT
                                     !.isolation = StrOrNone(Chars(a.isolation))],
                      !.output = <<CsvHeader>>,
                      !.count = 0,
                      !.rg = 1]

\* The handler's variables when the scan starts, for the request a.
ExportLocals(a) ==
  [IdleHandler EXCEPT !.pc = "scan",
                      !.filters = ParseFilters(a),
                      !.output = <<CsvHeader>>,
                      !.count = 0,
                      !.rg = 1]

export_csv_parse(i) ==
  /\ req[i].pc = "idle"
  /\ inbox[i].route = "/api/export"
  /\ \/ /\ YearRaises(inbox[i].year)
        /\ req' = [req EXCEPT ![i].pc = "failed",
                              ![i].response = ServerError("ValueError")]
     \/ /\ ~ YearRaises(inbox[i].year)
        /\ req' = [req EXCEPT ![i] = ExportLocals(inbox[i])]
  /\ UNCHANGED <<parquet, inbox>>

export_csv_read_row_group(i) ==
  /\ req[i].pc = "scan"
  /\ inbox[i].route = "/api/export"
  /\ req[i].rg <= num_row_groups
  /\ \/ req' = [req EXCEPT ![i] = ExportRowGroup(req[i], read_row_group(req[i].rg))]
     \/ \* read_row_group raises: nothing catches it
        req' = [req EXCEPT ![i].pc = "failed",
                           ![i].response = ServerError("ArrowError")]
  /\ UNCHANGED <<parquet, inbox>>

export_csv_respond(i) ==
  /\ inbox[i].route = "/api/export"
  /\ \/ req[i].pc = "respond"
     \/ req[i].pc = "scan" /\ req[i].rg > num_row_groups
  /\ req' = [req EXCEPT ![i].pc = "done",
                        ![i].response =
                           [status   |-> 200,
                            mimetype |-> "text/csv",
                            headers  |-> [h \in {"Content-Disposition"} |->
                                            "attachment; filename=ev_query_page.csv"],
                            body     |-> req[i].output]]
  /\ UNCHANGED <<parquet, inbox>>

---------------------------------------------------------------------------
(* Data files and requests                                                 *)

MaxRows == 3        \* rows in a data file
MaxRowGroups == 2   \* row groups in a data file
MaxStart == 2       \* the start parameter of /api/table
MaxLength == 2      \* the length parameter of /api/table
MaxRequests == 2    \* requests served at the same time

RowA == [VESICLE_TYPE |-> "exosome", species |-> "Homo sapiens",
         isolation_method |-> "ultracentrifugation", YEAR |-> 2015]
RowB == [VESICLE_TYPE |-> "microvesicle", species |-> "Mus musculus",
         isolation_method |-> "Precipitation", YEAR |-> 2016]
RowC == [VESICLE_TYPE |-> "Exosome", species |-> "Homo sapiens",
         isolation_method |-> "ultracentrifugation", YEAR |-> 2016]

RECURSIVE TotalRows(_)
TotalRows(file) ==
  IF file = <<>> THEN 0 ELSE Len(Head(file)) + TotalRows(Tail(file))

RowGroups == UNION {[1..k -> {RowA, RowB}] : k \in 0..MaxRows}

\* Every file of at most MaxRowGroups row groups and MaxRows rows of RowA, RowB.
SmallFiles ==
  {file \in UNION {[1..g -> RowGroups] : g \in 0..MaxRowGroups} :
     TotalRows(file) <= MaxRows}

\* VESICLE_TYPE exosome, microvesicle, exosome, in two row groups.
ScenarioA == <<<<RowA, RowB>>, <<RowA>>>>

FilterFiles == {ScenarioA, <<<<RowC>>, <<RowB, RowA>>>>}

Request(route, start, length, search, ev, species, isolation, year) ==
  [route |-> route, start |-> start, length |-> length, search |-> search,
   ev |-> ev, species |-> species, isolation |-> isolation, year |-> year]

\* Paging over SmallFiles: every start and length, a few filters.
PagingRequests ==
  {Request("/api/table", start, length, "", ev, "", "", year) :
     start \in 0..MaxStart, length \in 0..MaxLength,
     ev \in {"", "microvesicle"}, year \in {"", "2015"}}
  \cup
  {Request("/api/export", DefaultStart, DefaultLength, "", ev, "", "", year) :
     ev \in {"", "microvesicle"}, year \in {"", "2015"}}

EvArgs == {"", "sEV (exosome-like)", "microvesicle", "exosome", "vesicle",
           "MICROVESICLE"}
SpeciesArgs == {"", "Homo sapiens", "homo"}
IsolationArgs == {"", "Ultra", "precip"}
YearArgs == {"", "2015", "abc", "20x5", "0", "^2"}
SearchArgs == {"", "Exo", "sapiens"}

\* Filtering over FilterFiles: every combination of filter values, the
\* default page.
FilterRequests ==
  {Request("/api/table", DefaultStart, DefaultLength, search, ev, species,
           isolation, year) :
     search \in SearchArgs, ev \in EvArgs, species \in SpeciesArgs,
     isolation \in IsolationArgs, year \in YearArgs}
  \cup
  {Request("/api/export", DefaultStart, DefaultLength, "", ev, species,
           isolation, year) :
     ev \in EvArgs, species \in SpeciesArgs,
     isolation \in IsolationArgs, year \in YearArgs}

\* A row group of ExportCap rows, alone or beside a one-row row group: the
\* files on which an export reaches its cap.
BulkGroup == [k \in 1..ExportCap |-> RowA]

BulkFiles ==
  {<<BulkGroup>>}
  \cup {<<BulkGroup, <<r>>>> : r \in {RowA, RowB}}
  \cup {<<<<r>>, BulkGroup>> : r \in {RowA, RowB}}

BulkRequests ==
  {Request("/api/export", DefaultStart, DefaultLength, "", ev, "", "", year) :
     ev \in {"", "sEV (exosome-like)"}, year \in {"", "2015", "2016"}}

---------------------------------------------------------------------------
(* Specification                                                           *)

\* The file is opened at import (_parquet); one request is about to be served.
Init ==
  /\ \/ parquet \in FilterFiles /\ inbox \in [{1} -> FilterRequests]
     \/ parquet \in SmallFiles /\ inbox \in [{1} -> PagingRequests]
     \/ parquet \in BulkFiles /\ inbox \in [{1} -> BulkRequests]
  /\ req = [i \in DOMAIN inbox |-> IdleHandler]

Next ==
  \/ \E i \in Slots : api_table_parse(i)
  \/ \E i \in Slots : api_table_read_row_group(i)
  \/ \E i \in Slots : api_table_respond(i)
  \/ \E i \in Slots : export_csv_parse(i)
  \/ \E i \in Slots : export_csv_read_row_group(i)
  \/ \E i \in Slots : export_csv_respond(i)

Spec == Init /\ [][Next]_vars

\* The file without the column c.
WithoutColumn(file, c) ==
  [g \in DOMAIN file |->
     [k \in DOMAIN file[g] |->
        [d \in DOMAIN file[g][k] \ {c} |-> file[g][k][d]]]]

\* The files of FilterFiles with one of the columns of SAFE_COLUMNS absent.
DegradedFiles ==
  {WithoutColumn(file, SAFE_COLUMNS[j]) :
     file \in FilterFiles, j \in DOMAIN SAFE_COLUMNS}

\* As Init, for a data file that lacks one of the columns.
InitDegraded ==
  /\ parquet \in DegradedFiles
  /\ inbox \in [{1} -> FilterRequests]
  /\ req = [i \in DOMAIN inbox |-> IdleHandler]

SpecDegraded == InitDegraded /\ [][Next]_vars

\* Requests served at the same time: pages of one and two rows, from the
\* first and from the second match, and exports.
ConcurrentRequests ==
  {Request("/api/table", start, length, "", ev, "", "", "") :
     start \in 0..1, length \in 1..2, ev \in {"", "microvesicle"}}
  \cup
  {Request("/api/export", DefaultStart, DefaultLength, "", ev, "", "", "") :
     ev \in {"", "sEV (exosome-like)"}}

\* As Init, for MaxRequests requests that are served at the same time, each
\* in its own thread of the server.
InitConcurrent ==
  /\ parquet \in FilterFiles
  /\ inbox \in [1..MaxRequests -> ConcurrentRequests]
  /\ req = [i \in DOMAIN inbox |-> IdleHandler]

SpecConcurrent == InitConcurrent /\ [][Next]_vars

---------------------------------------------------------------------------
(* What the claims speak of                                                *)

Min(a, b) == IF a <= b THEN a ELSE b

\* The rows of the file in on-disk order: row group order, then row order.
RECURSIVE Flatten(_)
Flatten(file) ==
  IF file = <<>> THEN <<>> ELSE Head(file) \o Flatten(Tail(file))

\* The search argument row_matches receives for the request a.
SearchOf(a) ==
  IF a.route = "/api/table" THEN Some(Lower(Chars(a.search))) ELSE None

\* The rows of the whole file that satisfy the filter of the request a, in
\* on-disk order.
Matching(a) ==
  SelectSeq(Flatten(parquet),
            LAMBDA r : row_matches(r, ParseFilters(a), SearchOf(a)))

MatchCells(a) ==
  LET m == Matching(a) IN [k \in 1..Len(m) |-> Cells(m[k])]

\* The elements of seq at 0-based positions [start, start + length).
Slice(seq, start, length) ==
  SubSeq(seq, start + 1, Min(start + length, Len(seq)))

IsTable(i) == inbox[i].route = "/api/table"
IsExport(i) == inbox[i].route = "/api/export"
Done(i) == req[i].pc = "done"

\* The scan of /api/table from the handler state q to its end, every row
\* group read successfully.
RECURSIVE TableRun(_)
TableRun(q) ==
  IF q.pc = "scan" /\ q.rg <= num_row_groups
  THEN TableRun(TableRowGroup(q, read_row_group(q.rg)))
  ELSE q

---------------------------------------------------------------------------
(* C1..C5: paging and the export cap                                       *)

\* C1: a page returned by /api/table for length > 0 is exactly the matching
\* rows at 0-based positions [start, start + length) of the sequence of all
\* matching rows, in on-disk order; it is empty when start is at or beyond
\* the number of matching rows.
C1_PageIsSliceOfMatches ==
  \A i \in Slots :
    (IsTable(i) /\ Done(i) /\ inbox[i].length > 0) =>
      /\ req[i].response.status = 200
      /\ req[i].response.data =
           Slice(MatchCells(inbox[i]), inbox[i].start, inbox[i].length)

\* A full page strictly inside the matches, whose rows lie in two row groups.
C1_Witness ==
  \E i \in Slots :
    /\ IsTable(i) /\ Done(i)
    /\ inbox[i].start > 0
    /\ inbox[i].length > 0
    /\ Len(req[i].response.data) = inbox[i].length
    /\ Len(Matching(inbox[i])) > inbox[i].start + inbox[i].length
    /\ num_row_groups = 2
    /\ Len(parquet[1]) > 0 /\ Len(parquet[2]) > 0

\* C2: recordsTotal and recordsFiltered equal the number of rows of the
\* whole file that satisfy the filter, whatever page was requested (stated
\* for the pages of C1, length > 0).
C2_TotalIsMatchCount ==
  \A i \in Slots :
    (IsTable(i) /\ Done(i) /\ inbox[i].length > 0) =>
      /\ req[i].response.recordsTotal = Len(Matching(inbox[i]))
      /\ req[i].response.recordsFiltered = Len(Matching(inbox[i]))

\* The data of page k (start = k * length) of the request in slot i: the
\* response in slot i where that is the page it asked for, and otherwise the
\* rows the handler collects for that start.
PageData(i, k) ==
  IF k * inbox[i].length = inbox[i].start
  THEN req[i].response.data
  ELSE TableRun(TableLocals([inbox[i] EXCEPT !.start = k * inbox[i].length])).rows

RECURSIVE ConcatPages(_, _, _)
ConcatPages(i, k, last) ==
  IF k > last THEN <<>> ELSE PageData(i, k) \o ConcatPages(i, k + 1, last)

\* The 0-based index of the last page that contains a match (-1: no page).
LastPage(i) == (Len(Matching(inbox[i])) - 1) \div inbox[i].length

\* C3: for a fixed file, filter and length L > 0, the pages for start = 0, L,
\* 2L, ... up to the last page that contains a match, concatenated, are
\* exactly the matching rows in on-disk order.
C3_PagesConcatenateToMatches ==
  \A i \in Slots :
    (/\ IsTable(i) /\ Done(i)
     /\ inbox[i].length > 0
     /\ inbox[i].start % inbox[i].length = 0) =>
      ConcatPages(i, 0, LastPage(i)) = MatchCells(inbox[i])

\* The response is the second of at least three pages, and the matches lie
\* in two row groups.
C3_Witness ==
  \E i \in Slots :
    /\ IsTable(i) /\ Done(i)
    /\ inbox[i].length > 0
    /\ inbox[i].start = inbox[i].length
    /\ LastPage(i) >= 2
    /\ req[i].response.data # <<>>
    /\ num_row_groups = 2
    /\ Len(parquet[1]) > 0 /\ Len(parquet[2]) > 0

C5_OntologyNarrowsTotal ==
  \A i \in Slots :
    (IsTable(i) /\ Done(i) /\ inbox[i].ev \in DOMAIN EV_ONTOLOGY) =>
      req[i].response.recordsTotal <=
        TableRun(TableLocals([inbox[i] EXCEPT !.ev = ""])).matched

---------------------------------------------------------------------------
(* C6..C10: ontology terms, failures, the year filter, truncation          *)

\* The ontology entries a term names: it equals, case-insensitively, the
\* canonical label or a synonym of the entry.
EntriesNamedBy(term) ==
  {k \in DOMAIN EV_ONTOLOGY :
     \/ Lower(Chars(term)) = Lower(Chars(k))
     \/ \E j \in DOMAIN EV_ONTOLOGY[k].synonyms :
          Lower(Chars(term)) = Lower(Chars(EV_ONTOLOGY[k].synonyms[j]))}

\* The vesicle type of r contains cs as a case-insensitive substring.
VesicleTypeContains(r, cs) == Contains(Lower(Chars(r.VESICLE_TYPE)), Lower(cs))

\* The vesicle type of r contains a synonym of the entry k.
HasSynonymOf(r, k) ==
  \E j \in DOMAIN EV_ONTOLOGY[k].synonyms :
    VesicleTypeContains(r, Chars(EV_ONTOLOGY[k].synonyms[j]))

\* The ontology term is the only filter of the request a.
OnlyTerm(a) ==
  a.search = "" /\ a.species = "" /\ a.isolation = "" /\ a.year = ""

\* The response holds the whole result: the page starts at 0 and is longer
\* than the file.
WholeResult(i) ==
  inbox[i].start = 0 /\ inbox[i].length > Len(Flatten(parquet))

\* The response of slot i lists exactly the rows seq, and counts them.
Returns(i, seq) ==
  /\ req[i].response.data = [k \in 1..Len(seq) |-> Cells(seq[k])]
  /\ req[i].response.recordsTotal = Len(seq)

\* C6: a term that equals, case-insensitively, the label or a synonym of an
\* ontology entry narrows the search to exactly the rows whose vesicle type
\* contains a synonym of that entry (VESICLE_TYPE exosome, microvesicle,
\* exosome and the term "exosome": the two exosome rows, totalMatches = 2).
\* Stated for requests whose only filter is the term.
C6_TermNarrowsToSynonymRows ==
  \A i \in Slots :
    (/\ IsTable(i) /\ Done(i) /\ WholeResult(i) /\ OnlyTerm(inbox[i])
     /\ EntriesNamedBy(inbox[i].ev) # {}) =>
      \E k \in EntriesNamedBy(inbox[i].ev) :
        Returns(i, SelectSeq(Flatten(parquet), LAMBDA r : HasSynonymOf(r, k)))

\* C7: a term that names no ontology entry is searched for literally: the
\* rows returned are those whose vesicle type contains the lowercased term.
\* Stated for requests whose only filter is the term.
C7_UnresolvedTermIsLiteralSearch ==
  \A i \in Slots :
    (/\ IsTable(i) /\ Done(i) /\ WholeResult(i) /\ OnlyTerm(inbox[i])
     /\ inbox[i].ev # ""
     /\ EntriesNamedBy(inbox[i].ev) = {}) =>
      Returns(i, SelectSeq(Flatten(parquet),
                           LAMBDA r : VesicleTypeContains(r, Chars(inbox[i].ev))))

\* The request of slot i was aborted by a failed read of row group rg.
ReadFailed(i) ==
  /\ req[i].pc = "failed"
  /\ req[i].response.exception = "ArrowError"

\* C8: a row group that fails to read is skipped and the scan goes on; the
\* request is aborted only if every row group of the file fails.
C8_FailedRowGroupIsSkipped ==
  \A i \in Slots :
    ReadFailed(i) => \A g \in 1..num_row_groups : g = req[i].rg

\* The year value is present and holds a character that is no digit, as in
\* "abc" and "20x5".
InvalidYear(a) == a.year # "" /\ ~ IsDigit(Chars(a.year))

\* The year is the only filter of the request a.
OnlyYear(a) ==
  a.search = "" /\ a.ev = "" /\ a.species = "" /\ a.isolation = ""

\* C9: a year filter that is present and does not parse as an integer
\* matches no row: the request returns no rows, totalMatches = 0, and does
\* not fail.  Stated for requests whose only filter is the year.
C9_InvalidYearMatchesNothing ==
  \A i \in Slots :
    (InvalidYear(inbox[i]) /\ OnlyYear(inbox[i])) =>
      /\ ~ (req[i].pc = "failed" /\ req[i].response.exception = "ValueError")
      /\ (IsTable(i) /\ Done(i)) => Returns(i, <<>>)
      /\ (IsExport(i) /\ Done(i)) => req[i].response.body = <<CsvHeader>>

\* The export response of slot i carries a truncation signal: a header
\* beyond Content-Disposition, or a marker after the rows written.
TruncationSignalled(i) ==
  \/ DOMAIN req[i].response.headers # {"Content-Disposition"}
  \/ Len(req[i].response.body) > req[i].count + 1

\* C10: an export that stopped at the cap while more matching rows remain
\* carries a truncation signal, and an export of at most 1000 matches does
\* not.
C10_TruncationIsSignalled ==
  \A i \in Slots :
    (IsExport(i) /\ Done(i)) =>
      (TruncationSignalled(i) <=> Len(Matching(inbox[i])) > ExportCap)

---------------------------------------------------------------------------
(* C11: the free-text query                                                *)

\* The free-text query is the only filter of the request a.
OnlySearch(a) ==
  a.search # "" /\ a.ev = "" /\ a.species = "" /\ a.isolation = "" /\ a.year = ""

\* One of the textual columns of r contains cs as a case-insensitive
\* substring.
AnyTextColumnContains(r, cs) ==
  \E c \in {"VESICLE_TYPE", "species", "isolation_method"} :
    Contains(Lower(Chars(r[c])), Lower(cs))

\* C11: for a non-empty free-text query, a row is returned iff one of its
\* textual columns (vesicle type, species, isolation method) contains the
\* query as a case-insensitive substring; a row that holds the query only in
\* a column other than the vesicle type is still returned.  Stated for
\* requests whose only filter is the query.
C11_FreeTextSearchesEveryTextColumn ==
  \A i \in Slots :
    (IsTable(i) /\ Done(i) /\ WholeResult(i) /\ OnlySearch(inbox[i])) =>
      Returns(i, SelectSeq(Flatten(parquet),
                           LAMBDA r : AnyTextColumnContains(r, Chars(inbox[i].search))))

---------------------------------------------------------------------------
(* C12: a data file that lacks a column                                    *)

\* The columns of SAFE_COLUMNS that the data file does not have.
AbsentColumns ==
  {c \in {SAFE_COLUMNS[j] : j \in DOMAIN SAFE_COLUMNS} :
     \E g \in DOMAIN parquet : \E k \in DOMAIN parquet[g] :
       c \notin DOMAIN parquet[g][k]}

\* The request a names no filter and no free-text query.
NoFilter(a) ==
  a.search = "" /\ a.ev = "" /\ a.species = "" /\ a.isolation = "" /\ a.year = ""

\* C12: when the data file lacks the column of one of the roles (vesicle
\* type, species, isolation method, year), a search or an export is not
\* aborted because of it: it completes and returns results.  Stated for
\* requests that name no filter.
C12_AbsentColumnDoesNotFailRequest ==
  \A i \in Slots :
    (AbsentColumns # {} /\ NoFilter(inbox[i])) =>
      ~ (req[i].pc = "failed" /\ req[i].response.exception = "KeyError")

---------------------------------------------------------------------------
(* C13: requests served at the same time                                   *)

\* The handler's variables when the request a, served alone, has been parsed
\* and has read n row groups without a failure (or has left its loop before).
RECURSIVE AloneAfter(_, _)
AloneAfter(a, n) ==
  IF n = 0
  THEN IF a.route = "/api/table" THEN TableLocals(a) ELSE ExportLocals(a)
  ELSE LET q == AloneAfter(a, n - 1) IN
       IF q.pc = "scan" /\ q.rg <= num_row_groups
       THEN IF a.route = "/api/table"
            THEN TableRowGroup(q, read_row_group(q.rg))
            ELSE ExportRowGroup(q, read_row_group(q.rg))
       ELSE q

\* The handler's variables when the request a, served alone, leaves its loop.
AloneFinal(a) == AloneAfter(a, num_row_groups)

\* C13: whatever the interleaving of the row-group reads of the requests
\* being served, the counters and row buffers of each request are, at every
\* point of its scan, those it has at that point when served alone, and its
\* response (rows, their order, totalMatches) is the one it produces alone.
C13_RequestsAreIsolated ==
  \A i \in Slots :
    /\ req[i].pc \in {"scan", "respond"} =>
         req[i] = AloneAfter(inbox[i], req[i].rg - 1)
    /\ (IsTable(i) /\ Done(i)) =>
         /\ req[i].response.data = AloneFinal(inbox[i]).rows
         /\ req[i].response.recordsTotal = AloneFinal(inbox[i]).matched
         /\ req[i].response.recordsFiltered = AloneFinal(inbox[i]).matched
    /\ (IsExport(i) /\ Done(i)) =>
         req[i].response.body = AloneFinal(inbox[i]).output

\* Two different page requests are in the middle of their scans at the same
\* time, each having counted its own matches in the first row group.
C13_Witness ==
  /\ {1, 2} \subseteq Slots
  /\ IsTable(1) /\ IsTable(2)
  /\ inbox[1] # inbox[2]
  /\ req[1].pc = "scan" /\ req[1].rg = 2
  /\ req[2].pc = "scan" /\ req[2].rg = 2
  /\ req[1].matched > 0 /\ req[2].matched > 0
  /\ req[1].matched # req[2].matched

---------------------------------------------------------------------------
(* C14: early termination                                                  *)

\* The handler of slot i is about to read a row group.
AboutToRead(i) == req[i].pc = "scan" /\ req[i].rg <= num_row_groups

\* A step in which the handler of slot i reads a row group (the read may
\* fail).
ReadsRowGroup(i) == AboutToRead(i) /\ req[i]' # req[i]

\* The limit of the request in slot i is satisfied: length rows have been
\* collected (/api/table) or 1000 rows have been written (/api/export).
LimitSatisfied(i) ==
  IF IsTable(i) THEN Len(req[i].rows) >= req[i].length
                ELSE req[i].count >= ExportCap

\* C14: a row group is read only while the limit is unsatisfied: in
\* /api/table, for every length >= 0, no row group is read once length rows
\* have been collected, and in /api/export no row group is read once 1000
\* rows have been written.
C14_ReadsOnlyWhileLimitUnsatisfied ==
  [][\A i \in Slots : ReadsRowGroup(i) => ~ LimitSatisfied(i)]_vars

---------------------------------------------------------------------------
(* C15: the column-role predicates                                         *)

\* The value of the text column c of r contains the filter value v as a
\* case-insensitive substring.
TextRoleContains(r, c, v) == Contains(Lower(Chars(r[c])), Lower(Chars(v)))

\* r passes every column-role predicate that the request a names: a filter
\* that is absent ("") places no restriction.
PassesRolePredicates(r, a) ==
  /\ a.species # "" => TextRoleContains(r, "species", a.species)
  /\ a.isolation # "" => TextRoleContains(r, "isolation_method", a.isolation)
  /\ a.year # "" => r.YEAR = int(Chars(a.year))

\* The request a names column-role filters only, and its year, if any, is
\* a decimal integer other than 0.
OnlyRoleFilters(a) ==
  /\ a.search = "" /\ a.ev = ""
  /\ a.year # "" => /\ IsDigit(Chars(a.year)) /\ ~ IntRaises(Chars(a.year))
                    /\ int(Chars(a.year)) # 0

\* C15: a row is returned iff it passes every column-role predicate that is
\* present: for species and isolation method the row's value contains the
\* filter value as a case-insensitive substring, for the year the row's year
\* equals the filter's integer value.  Stated for requests that name no
\* ontology term and no free-text query, and a year other than 0.
C15_RolePredicatesDecideTheRows ==
  \A i \in Slots :
    (IsTable(i) /\ Done(i) /\ WholeResult(i) /\ OnlyRoleFilters(inbox[i])) =>
      Returns(i, SelectSeq(Flatten(parquet),
                           LAMBDA r : PassesRolePredicates(r, inbox[i])))

---------------------------------------------------------------------------
(* C16: the export and the paged search                                    *)

\* The /api/table request for the filter of the request a, with no
\* free-text query, whose page holds every match of the file.
AllMatchesPage(a) ==
  [a EXCEPT !.route = "/api/table", !.search = "", !.start = 0,
            !.length = Len(Flatten(parquet)) + 1]

\* The sequence of matches that /api/table pages over for the filter of a:
\* the rows it collects for that page.
TableMatchSequence(a) == TableRun(TableLocals(AllMatchesPage(a))).rows

=============================================================================
